---- MODULE Spec2Model ----
(***************************************************************************)
(* Model of package encryptedstring (src/encryptedstring.go): the global   *)
(* key registry, the versioned AES-GCM codec of EncryptedString with its   *)
(* database/sql and encoding/json adapters, and the HMAC-SHA512 blind      *)
(* index of BlindIndexHash.                                                *)
(*                                                                         *)
(* Byte strings ([]byte and string) are sequences of 0..255.  crypto/aes   *)
(* and the GCM mode of crypto/cipher are outside the repository; they are  *)
(* modelled after their standards (FIPS 197, SP 800-38D), byte for byte,   *)
(* because what Decrypt accepts and rejects is decided by the tag.         *)
(* encoding/base64 URL encoding is modelled bit for bit.  crypto/sha512    *)
(* and crypto/hmac are modelled after FIPS 180-4 and RFC 2104, byte for    *)
(* byte, with 64-bit words held as sequences of 8 bytes.                   *)
(***************************************************************************)
EXTENDS Integers, Sequences, FiniteSets, TLC

\* encryptionKeys: the package-level map of named keys, the only state the
\*                 package keeps
\* ret:            the last call made on the package: its arguments, what it
\*                 returned, the library calls it made, and (origin) what
\*                 the call before it returned: kept by a decoding call
\*                 that follows an encrypting call, and by a hash call that
\*                 follows a hash call
VARIABLES encryptionKeys, ret

vars == <<encryptionKeys, ret>>

(* ---------------------------------------------------------------- bounds *)

\* plaintexts are the prefixes of LongPlain of length <= MaxPlainLen, plus
\* LongPlain, which is longer than a cipher block
MaxPlainLen == 2

\* number of distinct nonces the random source may deliver
MaxNonces == 2

(* ------------------------------------------------------ program constants *)

encryptionVersion == 0

blockSize == 12

\* cipher.NewGCM: standard 16-byte tag appended by Seal
gcmTagSize == 16

\* sha512.Size: length of the HMAC-SHA512 digest
sha512Size == 64

(* ------------------------------------------------------------ byte helpers *)

Bit(a, k) == (a \div k) % 2

\* bitwise exclusive or of two bytes, tabulated once
XorTable ==
    [a \in 0..255 |-> [b \in 0..255 |->
          ((Bit(a, 1) + Bit(b, 1)) % 2)
        + ((Bit(a, 2) + Bit(b, 2)) % 2) * 2
        + ((Bit(a, 4) + Bit(b, 4)) % 2) * 4
        + ((Bit(a, 8) + Bit(b, 8)) % 2) * 8
        + ((Bit(a, 16) + Bit(b, 16)) % 2) * 16
        + ((Bit(a, 32) + Bit(b, 32)) % 2) * 32
        + ((Bit(a, 64) + Bit(b, 64)) % 2) * 64
        + ((Bit(a, 128) + Bit(b, 128)) % 2) * 128]]

Xor(a, b) == XorTable[a][b]

\* bitwise and of two bytes, tabulated once
AndTable ==
    [a \in 0..255 |-> [b \in 0..255 |->
          (Bit(a, 1) * Bit(b, 1))
        + (Bit(a, 2) * Bit(b, 2)) * 2
        + (Bit(a, 4) * Bit(b, 4)) * 4
        + (Bit(a, 8) * Bit(b, 8)) * 8
        + (Bit(a, 16) * Bit(b, 16)) * 16
        + (Bit(a, 32) * Bit(b, 32)) * 32
        + (Bit(a, 64) * Bit(b, 64)) * 64
        + (Bit(a, 128) * Bit(b, 128)) * 128]]

And(a, b) == AndTable[a][b]

Take(s, n) == SubSeq(s, 1, IF n < Len(s) THEN n ELSE Len(s))

Drop(s, n) == SubSeq(s, n + 1, Len(s))

(* ------------------------------------------------------------ input sets *)

\* the 32-byte key the package's tests register
TestKey ==
    <<89, 53, 51, 68, 73, 105, 71, 54, 88, 88, 55, 101, 103, 117, 65, 48, 83, 79, 122, 75, 55, 112, 54, 69, 80, 86, 55, 119, 102, 82, 78, 101>>

\* a 5-byte key, which aes.NewCipher rejects
ShortKey == <<115, 104, 111, 114, 116>>

Keys == {TestKey, ShortKey}

Names == {"encrypt", "blindIndex"}

\* "Hello World, how ": longer than one cipher block
LongPlain ==
    <<72, 101, 108, 108, 111, 32, 87, 111, 114, 108, 100, 44, 32, 104, 111, 119, 32>>

\* plaintexts: the short prefixes of LongPlain, the empty one included, and
\* LongPlain itself
Plaintexts == {Take(LongPlain, n) : n \in 0..MaxPlainLen} \cup {LongPlain}

\* the 12-byte values io.ReadFull(rand.Reader, nonce) may deliver
NonceOf(k) == [i \in 1..blockSize |-> (37 * k + 11 * i) % 256]

Nonces == {NonceOf(k) : k \in 1..MaxNonces}

\* outcomes of io.ReadFull(rand.Reader, nonce): a nonce, or a failed read
RandReads ==
    {[ok |-> TRUE, nonce |-> n] : n \in Nonces} \cup {[ok |-> FALSE, nonce |-> <<>>]}

(* ----------------------------------------------------- crypto/aes (FIPS 197) *)

\* aes.NewCipher: accepts 16, 24 or 32 byte keys, else KeySizeError
NewCipherOK(key) == Len(key) \in {16, 24, 32}

\* the byte-wise exclusive or of two byte strings of one length.  (A
\* variable bound over a one-element set holds a value computed once.)
XorBytes(a, b) ==
    CHOOSE out \in {[i \in 1..Len(u) |-> Xor(u[i], v[i])] : u \in {a}, v \in {b}} : TRUE

\* multiplication by x in GF(2^8) modulo x^8 + x^4 + x^3 + x + 1
XTime(a) == IF a >= 128 THEN Xor((2 * a) % 256, 27) ELSE 2 * a

\* multiplication in GF(2^8)
RECURSIVE GfMul8(_, _)
GfMul8(a, b) ==
    IF b = 0 THEN 0
    ELSE Xor(IF b % 2 = 1 THEN a ELSE 0, GfMul8(XTime(a), b \div 2))

\* the multiplicative inverse in GF(2^8), 0 for 0
GfInv8(a) == IF a = 0 THEN 0 ELSE CHOOSE b \in 1..255 : GfMul8(a, b) = 1

\* the byte b rotated left by n bits
RotL8(b, n) == ((b * (2 ^ n)) % 256) + (b \div (2 ^ (8 - n)))

\* the affine transformation of the S-box
Affine(b) ==
    Xor(Xor(Xor(b, RotL8(b, 1)), Xor(RotL8(b, 2), RotL8(b, 3))),
        Xor(RotL8(b, 4), 99))

\* the AES S-box, tabulated once
SBox == [a \in 0..255 |-> CHOOSE s \in {Affine(b) : b \in {GfInv8(a)}} : TRUE]

\* multiplication by 2 and by 3 in GF(2^8), tabulated once
Mul2 == [a \in 0..255 |-> XTime(a)]

Mul3 == [a \in 0..255 |-> Xor(XTime(a), a)]

SubWord(w) == <<SBox[w[1]], SBox[w[2]], SBox[w[3]], SBox[w[4]]>>

RotWord(w) == <<w[2], w[3], w[4], w[1]>>

\* the round constant x^(j-1)
RECURSIVE Rcon(_)
Rcon(j) == IF j = 1 THEN 1 ELSE XTime(Rcon(j - 1))

\* the word of the key schedule that follows the i words of w, for a key of
\* nk words
NextWord(w, nk, i) ==
    XorBytes(w[i - nk + 1],
             IF i % nk = 0
             THEN XorBytes(SubWord(RotWord(w[i])), <<Rcon(i \div nk), 0, 0, 0>>)
             ELSE IF nk > 6 /\ i % nk = 4 THEN SubWord(w[i])
             ELSE w[i])

\* the first n words of the key schedule of key
RECURSIVE KeyWords(_, _)
KeyWords(key, n) ==
    IF n <= Len(key) \div 4
    THEN [i \in 1..n |-> SubSeq(key, 4 * i - 3, 4 * i)]
    ELSE CHOOSE out \in {Append(w, NextWord(w, Len(key) \div 4, n - 1)) :
                           w \in {KeyWords(key, n - 1)}} : TRUE

\* number of rounds for a key: 10, 12 or 14
Rounds(key) == (Len(key) \div 4) + 6

\* the key schedule: 4 * (rounds + 1) words of 4 bytes
ExpandKey(key) == KeyWords(key, 4 * (Rounds(key) + 1))

\* the 16 bytes of round key r of the schedule w
RoundKey(w, r) ==
    [i \in 1..16 |-> w[4 * r + ((i - 1) \div 4) + 1][((i - 1) % 4) + 1]]

\* where ShiftRows takes the i-th byte of a state from
ShiftIndex ==
    [i \in 1..16 |-> 4 * ((((i - 1) \div 4) + ((i - 1) % 4)) % 4) + ((i - 1) % 4) + 1]

\* the place of the byte k rows below the i-th byte, in its column
ColumnIndex ==
    [i \in 1..16 |-> [k \in 0..3 |-> 4 * ((i - 1) \div 4) + ((i - 1 + k) % 4) + 1]]

\* SubBytes followed by ShiftRows on a state of 16 bytes, column by column
SubShift(s) == [i \in 1..16 |-> SBox[s[ShiftIndex[i]]]]

MixColumns(s) ==
    [i \in 1..16 |->
        Xor(Xor(Mul2[s[ColumnIndex[i][0]]], Mul3[s[ColumnIndex[i][1]]]),
            Xor(s[ColumnIndex[i][2]], s[ColumnIndex[i][3]]))]

\* the state after round r of the encryption of blk under the schedule w
RECURSIVE CipherRound(_, _, _)
CipherRound(w, blk, r) ==
    IF r = 0 THEN XorBytes(blk, RoundKey(w, 0))
    ELSE CHOOSE out \in
           {XorBytes(m, RoundKey(w, r)) :
              m \in {IF 4 * (r + 1) = Len(w) THEN t ELSE MixColumns(t) :
                       t \in {SubShift(s) : s \in {CipherRound(w, blk, r - 1)}}}} : TRUE

\* cipher.Block.Encrypt of one 16-byte block under the schedule w
EncryptBlock(w, blk) == CipherRound(w, blk, (Len(w) \div 4) - 1)

(* ------------------------------------------- crypto/cipher GCM (SP 800-38D) *)

ZeroBlock == [i \in 1..16 |-> 0]

\* the block v times x in GF(2^128): one bit to the right, reduced by
\* x^128 + x^7 + x^2 + x + 1
MulX(v) ==
    [i \in 1..16 |->
        Xor((v[i] \div 2) + (IF i > 1 THEN (v[i - 1] % 2) * 128 ELSE 0),
            IF i = 1 /\ v[16] % 2 = 1 THEN 225 ELSE 0)]

\* h, h*x, ..., h*x^(n-1)
RECURSIVE Powers(_, _)
Powers(h, n) ==
    IF n = 1 THEN <<h>>
    ELSE CHOOSE out \in {Append(p, MulX(p[n - 1])) : p \in {Powers(h, n - 1)}} : TRUE

\* the product of h and the byte b standing at byte j of a block, from the
\* first k bits of b (most significant first); hp is Powers(h, 128)
RECURSIVE ByteProduct(_, _, _, _)
ByteProduct(hp, j, b, k) ==
    IF k = 0 THEN ZeroBlock
    ELSE IF (b \div (2 ^ (8 - k))) % 2 = 1
    THEN XorBytes(ByteProduct(hp, j, b, k - 1), hp[8 * (j - 1) + k])
    ELSE ByteProduct(hp, j, b, k - 1)

\* the products of h with every byte at every place of a block
ProductTable(h) ==
    CHOOSE t \in {[j \in 1..16 |-> [b \in 0..255 |-> ByteProduct(hp, j, b, 8)]] :
                    hp \in {Powers(h, 128)}} : TRUE

\* cipher.NewGCM(block): the key schedule and the product table of the hash
\* key, which is the encryption of the zero block
NewGCM(key) ==
    CHOOSE g \in {[w |-> w, productTable |-> ProductTable(EncryptBlock(w, ZeroBlock))] :
                    w \in {ExpandKey(key)}} : TRUE

\* the exclusive or of the i-th bytes of 16 blocks
XorColumn(rows, i) ==
    Xor(Xor(Xor(Xor(rows[1][i], rows[2][i]), Xor(rows[3][i], rows[4][i])),
            Xor(Xor(rows[5][i], rows[6][i]), Xor(rows[7][i], rows[8][i]))),
        Xor(Xor(Xor(rows[9][i], rows[10][i]), Xor(rows[11][i], rows[12][i])),
            Xor(Xor(rows[13][i], rows[14][i]), Xor(rows[15][i], rows[16][i]))))

\* the product of the block x and the hash key in GF(2^128): the sum of the
\* products of its 16 bytes
Mul(t, x) ==
    CHOOSE out \in
      {[i \in 1..16 |-> XorColumn(rows, i)] :
         rows \in {[j \in 1..16 |-> t[j][u[j]]] : u \in {x}}} : TRUE

\* the i-th 16-byte block of data, the last one filled up with zeros
BlockOf(data, i) ==
    [k \in 1..16 |->
        IF 16 * (i - 1) + k <= Len(data) THEN data[16 * (i - 1) + k] ELSE 0]

\* the closing block of GHASH: 64 bits for the length of the (absent)
\* additional data, 64 bits for the length of the ciphertext, in bits
LenBlock(n) ==
    [k \in 1..16 |-> IF k < 13 THEN 0 ELSE ((8 * n) \div (256 ^ (16 - k))) % 256]

\* GHASH after the first i blocks of ct
RECURSIVE GHashBlocks(_, _, _)
GHashBlocks(t, ct, i) ==
    IF i = 0 THEN ZeroBlock
    ELSE Mul(t, XorBytes(GHashBlocks(t, ct, i - 1), BlockOf(ct, i)))

GHash(t, ct) ==
    Mul(t, XorBytes(GHashBlocks(t, ct, (Len(ct) + 15) \div 16), LenBlock(Len(ct))))

\* the counter block of a 12-byte nonce with the 32-bit counter c
CounterBlock(nonce, c) ==
    nonce \o <<(c \div 16777216) % 256, (c \div 65536) % 256, (c \div 256) % 256, c % 256>>

\* counter mode: data xor the encryptions of the counter blocks 2, 3, ...
CtrXor(w, nonce, data) ==
    CHOOSE out \in
      {[k \in 1..Len(data) |-> Xor(data[k], ks[((k - 1) \div 16) + 1][((k - 1) % 16) + 1])] :
         ks \in {[i \in 1..((Len(data) + 15) \div 16) |->
                    EncryptBlock(w, CounterBlock(nonce, i + 1))]}} : TRUE

\* the 16-byte tag of the ciphertext ct under nonce: GHASH of ct xor the
\* encryption of counter block 1
GcmTag(g, nonce, ct) ==
    XorBytes(GHash(g.productTable, ct), EncryptBlock(g.w, CounterBlock(nonce, 1)))

\* the ciphers of the keys the calls register, built once
GcmTable == [key \in {k \in Keys : NewCipherOK(k)} |-> NewGCM(key)]

\* aes.NewCipher(key) followed by cipher.NewGCM(block)
AesGcm(key) == IF key \in DOMAIN GcmTable THEN GcmTable[key] ELSE NewGCM(key)

\* the ciphertext of plaintext followed by its tag
SealWith(g, nonce, plaintext) ==
    CHOOSE sealed \in {ct \o GcmTag(g, nonce, ct) :
                         ct \in {CtrXor(g.w, nonce, plaintext)}} : TRUE

SealText(key, nonce, plaintext) ==
    CHOOSE sealed \in {SealWith(g, nonce, plaintext) : g \in {AesGcm(key)}} : TRUE

\* the sealed texts of the inputs the calls draw, computed once
SealedTexts ==
    [key \in {k \in Keys : NewCipherOK(k)} |->
        [nonce \in Nonces |-> [p \in Plaintexts |-> SealText(key, nonce, p)]]]

\* cipher.AEAD.Seal(nil, nonce, plaintext, nil)
Seal(key, nonce, plaintext) ==
    IF key \in DOMAIN SealedTexts /\ nonce \in Nonces /\ plaintext \in Plaintexts
    THEN SealedTexts[key][nonce][plaintext]
    ELSE SealText(key, nonce, plaintext)

OpenWith(g, nonce, ct, tag) ==
    IF tag = GcmTag(g, nonce, ct)
    THEN [ok |-> TRUE, plaintext |-> CtrXor(g.w, nonce, ct) \o <<>>]
    ELSE [ok |-> FALSE, plaintext |-> <<>>]

\* cipher.AEAD.Open(nil, nonce, sealed, nil): [ok, plaintext]; the tag is
\* verified before any plaintext is released
Open(key, nonce, sealed) ==
    IF Len(sealed) < gcmTagSize
    THEN [ok |-> FALSE, plaintext |-> <<>>]
    ELSE CHOOSE opened \in
           {OpenWith(g, nonce, ct, tag) :
               g \in {AesGcm(key)},
               ct \in {Take(sealed, Len(sealed) - gcmTagSize)},
               tag \in {Drop(sealed, Len(sealed) - gcmTagSize)}} : TRUE

(* ------------------------------------------------- crypto/sha512 (FIPS 180-4) *)

\* the round constants of SHA-512: the first 64 bits of the fractional parts
\* of the cube roots of the first 80 primes, as words of 8 bytes
RoundConstants ==
    <<<<66, 138, 47, 152, 215, 40, 174, 34>>,
      <<113, 55, 68, 145, 35, 239, 101, 205>>,
      <<181, 192, 251, 207, 236, 77, 59, 47>>,
      <<233, 181, 219, 165, 129, 137, 219, 188>>,
      <<57, 86, 194, 91, 243, 72, 181, 56>>,
      <<89, 241, 17, 241, 182, 5, 208, 25>>,
      <<146, 63, 130, 164, 175, 25, 79, 155>>,
      <<171, 28, 94, 213, 218, 109, 129, 24>>,
      <<216, 7, 170, 152, 163, 3, 2, 66>>,
      <<18, 131, 91, 1, 69, 112, 111, 190>>,
      <<36, 49, 133, 190, 78, 228, 178, 140>>,
      <<85, 12, 125, 195, 213, 255, 180, 226>>,
      <<114, 190, 93, 116, 242, 123, 137, 111>>,
      <<128, 222, 177, 254, 59, 22, 150, 177>>,
      <<155, 220, 6, 167, 37, 199, 18, 53>>,
      <<193, 155, 241, 116, 207, 105, 38, 148>>,
      <<228, 155, 105, 193, 158, 241, 74, 210>>,
      <<239, 190, 71, 134, 56, 79, 37, 227>>,
      <<15, 193, 157, 198, 139, 140, 213, 181>>,
      <<36, 12, 161, 204, 119, 172, 156, 101>>,
      <<45, 233, 44, 111, 89, 43, 2, 117>>,
      <<74, 116, 132, 170, 110, 166, 228, 131>>,
      <<92, 176, 169, 220, 189, 65, 251, 212>>,
      <<118, 249, 136, 218, 131, 17, 83, 181>>,
      <<152, 62, 81, 82, 238, 102, 223, 171>>,
      <<168, 49, 198, 109, 45, 180, 50, 16>>,
      <<176, 3, 39, 200, 152, 251, 33, 63>>,
      <<191, 89, 127, 199, 190, 239, 14, 228>>,
      <<198, 224, 11, 243, 61, 168, 143, 194>>,
      <<213, 167, 145, 71, 147, 10, 167, 37>>,
      <<6, 202, 99, 81, 224, 3, 130, 111>>,
      <<20, 41, 41, 103, 10, 14, 110, 112>>,
      <<39, 183, 10, 133, 70, 210, 47, 252>>,
      <<46, 27, 33, 56, 92, 38, 201, 38>>,
      <<77, 44, 109, 252, 90, 196, 42, 237>>,
      <<83, 56, 13, 19, 157, 149, 179, 223>>,
      <<101, 10, 115, 84, 139, 175, 99, 222>>,
      <<118, 106, 10, 187, 60, 119, 178, 168>>,
      <<129, 194, 201, 46, 71, 237, 174, 230>>,
      <<146, 114, 44, 133, 20, 130, 53, 59>>,
      <<162, 191, 232, 161, 76, 241, 3, 100>>,
      <<168, 26, 102, 75, 188, 66, 48, 1>>,
      <<194, 75, 139, 112, 208, 248, 151, 145>>,
      <<199, 108, 81, 163, 6, 84, 190, 48>>,
      <<209, 146, 232, 25, 214, 239, 82, 24>>,
      <<214, 153, 6, 36, 85, 101, 169, 16>>,
      <<244, 14, 53, 133, 87, 113, 32, 42>>,
      <<16, 106, 160, 112, 50, 187, 209, 184>>,
      <<25, 164, 193, 22, 184, 210, 208, 200>>,
      <<30, 55, 108, 8, 81, 65, 171, 83>>,
      <<39, 72, 119, 76, 223, 142, 235, 153>>,
      <<52, 176, 188, 181, 225, 155, 72, 168>>,
      <<57, 28, 12, 179, 197, 201, 90, 99>>,
      <<78, 216, 170, 74, 227, 65, 138, 203>>,
      <<91, 156, 202, 79, 119, 99, 227, 115>>,
      <<104, 46, 111, 243, 214, 178, 184, 163>>,
      <<116, 143, 130, 238, 93, 239, 178, 252>>,
      <<120, 165, 99, 111, 67, 23, 47, 96>>,
      <<132, 200, 120, 20, 161, 240, 171, 114>>,
      <<140, 199, 2, 8, 26, 100, 57, 236>>,
      <<144, 190, 255, 250, 35, 99, 30, 40>>,
      <<164, 80, 108, 235, 222, 130, 189, 233>>,
      <<190, 249, 163, 247, 178, 198, 121, 21>>,
      <<198, 113, 120, 242, 227, 114, 83, 43>>,
      <<202, 39, 62, 206, 234, 38, 97, 156>>,
      <<209, 134, 184, 199, 33, 192, 194, 7>>,
      <<234, 218, 125, 214, 205, 224, 235, 30>>,
      <<245, 125, 79, 127, 238, 110, 209, 120>>,
      <<6, 240, 103, 170, 114, 23, 111, 186>>,
      <<10, 99, 125, 197, 162, 200, 152, 166>>,
      <<17, 63, 152, 4, 190, 249, 13, 174>>,
      <<27, 113, 11, 53, 19, 28, 71, 27>>,
      <<40, 219, 119, 245, 35, 4, 125, 132>>,
      <<50, 202, 171, 123, 64, 199, 36, 147>>,
      <<60, 158, 190, 10, 21, 201, 190, 188>>,
      <<67, 29, 103, 196, 156, 16, 13, 76>>,
      <<76, 197, 212, 190, 203, 62, 66, 182>>,
      <<89, 127, 41, 156, 252, 101, 126, 42>>,
      <<95, 203, 111, 171, 58, 214, 250, 236>>,
      <<108, 68, 25, 140, 74, 71, 88, 23>>>>

\* the initial hash value of SHA-512: the first 64 bits of the fractional
\* parts of the square roots of the first 8 primes
InitialHash ==
    <<<<106, 9, 230, 103, 243, 188, 201, 8>>,
      <<187, 103, 174, 133, 132, 202, 167, 59>>,
      <<60, 110, 243, 114, 254, 148, 248, 43>>,
      <<165, 79, 245, 58, 95, 29, 54, 241>>,
      <<81, 14, 82, 127, 173, 230, 130, 209>>,
      <<155, 5, 104, 140, 43, 62, 108, 31>>,
      <<31, 131, 217, 171, 251, 65, 189, 107>>,
      <<91, 224, 205, 25, 19, 126, 33, 121>>>>

\* A 64-bit word is a sequence of 8 bytes, the most significant first.

\* the word w rotated right by n bits, 0 < n < 64
RotR(w, n) ==
    [i \in 1..8 |->
        (w[((i - (n \div 8) + 7) % 8) + 1] \div (2 ^ (n % 8)))
      + (w[((i - (n \div 8) + 6) % 8) + 1] % (2 ^ (n % 8))) * (2 ^ (8 - (n % 8)))]

\* the word w shifted right by n bits, 0 < n < 8
ShR(w, n) ==
    [i \in 1..8 |->
        (w[i] \div (2 ^ n)) + (IF i > 1 THEN (w[i - 1] % (2 ^ n)) * (2 ^ (8 - n)) ELSE 0)]

\* the exclusive or of three words
Xor3(a, b, c) == [i \in 1..8 |-> Xor(Xor(a[i], b[i]), c[i])]

BigSigma0(w) == Xor3(RotR(w, 28), RotR(w, 34), RotR(w, 39))

BigSigma1(w) == Xor3(RotR(w, 14), RotR(w, 18), RotR(w, 41))

SmallSigma0(w) == Xor3(RotR(w, 1), RotR(w, 8), ShR(w, 7))

SmallSigma1(w) == Xor3(RotR(w, 19), RotR(w, 61), ShR(w, 6))

Ch(e, f, g) == [i \in 1..8 |-> Xor(And(e[i], f[i]), And(255 - e[i], g[i]))]

Maj(a, b, c) ==
    [i \in 1..8 |-> Xor(Xor(And(a[i], b[i]), And(a[i], c[i])), And(b[i], c[i]))]

\* the sum, over the first n words of ws, of the number that the bytes
\* from..to of a word spell
RECURSIVE ChunkSum(_, _, _, _)
ChunkSum(ws, n, from, to) ==
    IF n = 0 THEN 0
    ELSE ChunkSum(ws, n - 1, from, to)
           + (IF to - from = 2
              THEN ws[n][from] * 65536 + ws[n][from + 1] * 256 + ws[n][to]
              ELSE ws[n][from] * 256 + ws[n][to])

\* the word that the sums hi (bytes 1..2), mid (bytes 3..5) and lo (bytes
\* 6..8) spell, carries dropped
WordOf(hi, mid, lo) ==
    <<(hi \div 256) % 256, hi % 256,
      (mid \div 65536) % 256, (mid \div 256) % 256, mid % 256,
      (lo \div 65536) % 256, (lo \div 256) % 256, lo % 256>>

\* the sum modulo 2^64 of up to 5 words, added in chunks of at most 24 bits
\* with the carry of a chunk passed on to the next.  (A variable bound over
\* a one-element set holds a value computed once.)
Add64(words) ==
    CHOOSE out \in
      UNION {UNION {UNION {{WordOf(hi, mid, lo) :
                              hi \in {ChunkSum(ws, Len(ws), 1, 2) + (mid \div 16777216)}} :
                           mid \in {ChunkSum(ws, Len(ws), 3, 5) + (lo \div 16777216)}} :
                    lo \in {ChunkSum(ws, Len(ws), 6, 8)}} :
             ws \in {words}} : TRUE

\* the message schedule w with the k words that follow it appended: half of
\* them, then the rest
RECURSIVE Extend(_, _)
Extend(w, k) ==
    IF k = 0 THEN w
    ELSE IF k = 1
    THEN CHOOSE out \in
           {Append(v, Add64(<<SmallSigma1(v[Len(v) - 1]), v[Len(v) - 6],
                              SmallSigma0(v[Len(v) - 14]), v[Len(v) - 15]>>)) :
              v \in {w}} : TRUE
    ELSE CHOOSE out \in {Extend(v, k - (k \div 2)) : v \in {Extend(w, k \div 2)}} : TRUE

\* the 80 words of the message schedule of the 128-byte block blk
Schedule(blk) == Extend([t \in 1..16 |-> SubSeq(blk, 8 * t - 7, 8 * t)], 64)

\* one round on the working variables s = <<a, b, c, d, e, f, g, h>> with
\* the round constant k and the schedule word w
RoundStep(s, k, w) ==
    CHOOSE out \in
      {<<Add64(<<t1, t2>>), s[1], s[2], s[3], Add64(<<s[4], t1>>), s[5], s[6], s[7]>> :
         t1 \in {Add64(<<s[8], BigSigma1(s[5]), Ch(s[5], s[6], s[7]), k, w>>)},
         t2 \in {Add64(<<BigSigma0(s[1]), Maj(s[1], s[2], s[3])>>)}} : TRUE

\* the working variables s after the rounds from..to with schedule w: the
\* first half of the rounds, then the rest
RECURSIVE Sha512Rounds(_, _, _, _)
Sha512Rounds(s, w, from, to) ==
    IF from = to THEN RoundStep(s, RoundConstants[from], w[from])
    ELSE CHOOSE out \in
           {Sha512Rounds(v, w, ((from + to) \div 2) + 1, to) :
              v \in {Sha512Rounds(s, w, from, (from + to) \div 2)}} : TRUE

\* the hash value after the 128-byte block blk
Compress(h, blk) ==
    CHOOSE out \in
      {[i \in 1..8 |-> Add64(<<h0[i], s[i]>>)] :
         h0 \in {h},
         s \in {CHOOSE r \in {Sha512Rounds(h, w, 1, 80) : w \in {Schedule(blk)}} : TRUE}} : TRUE

\* the message followed by the bit 1, zeros up to 16 bytes short of a
\* multiple of 128 bytes, and its length in bits as 16 bytes (messages
\* shorter than 2^28 bytes)
Pad(msg) ==
    msg \o <<128>> \o [i \in 1..((239 - Len(msg)) % 128) |-> 0]
        \o [i \in 1..12 |-> 0]
        \o <<((8 * Len(msg)) \div 16777216) % 256, ((8 * Len(msg)) \div 65536) % 256,
             ((8 * Len(msg)) \div 256) % 256, (8 * Len(msg)) % 256>>

\* the hash value after the first n blocks of the padded message p
RECURSIVE HashBlocks(_, _)
HashBlocks(p, n) ==
    IF n = 0 THEN InitialHash
    ELSE CHOOSE out \in {Compress(h, SubSeq(p, 128 * n - 127, 128 * n)) :
                           h \in {HashBlocks(p, n - 1)}} : TRUE

\* the bytes of a sequence of words
BytesOf(h) == [i \in 1..(8 * Len(h)) |-> h[((i - 1) \div 8) + 1][((i - 1) % 8) + 1]]

\* sha512.Sum512(msg): 64 bytes
Sha512(msg) ==
    CHOOSE sum \in {BytesOf(HashBlocks(p, Len(p) \div 128)) \o <<>> :
                      p \in {Pad(msg)}} : TRUE

(* ------------------------------------------------------ crypto/hmac (RFC 2104) *)

\* block size of SHA-512 in bytes
sha512BlockSize == 128

\* the key as hmac.New prepares it: hashed when longer than a block, then
\* filled up with zeros to a block
HmacKey(key) ==
    CHOOSE out \in {k \o [i \in 1..(sha512BlockSize - Len(k)) |-> 0] :
                      k \in {IF Len(key) > sha512BlockSize THEN Sha512(key) ELSE key}} : TRUE

\* hmac.New(sha512.New, key); mac.Write(msg); mac.Sum(nil)
HmacText(key, msg) ==
    CHOOSE sum \in
      {Sha512([i \in 1..sha512BlockSize |-> Xor(k[i], 92)]
                \o Sha512([i \in 1..sha512BlockSize |-> Xor(k[i], 54)] \o msg)) :
         k \in {HmacKey(key)}} : TRUE

\* the digests of the keys and plaintexts of the model, computed once
HmacTable == [key \in Keys \cup {<<>>} |-> [msg \in Plaintexts |-> HmacText(key, msg)]]

\* hmac.New(sha512.New, key); mac.Write(msg); mac.Sum(nil), looked up in the
\* table where it is there
HmacSha512(key, msg) ==
    IF key \in DOMAIN HmacTable /\ msg \in DOMAIN HmacTable[key]
    THEN HmacTable[key][msg]
    ELSE HmacText(key, msg)

(* ------------------------------------------------- encoding/base64 (URL) *)

\* base64.URLEncoding alphabet: A-Z a-z 0-9 - _  (as character codes)
B64Char(v) ==
    IF v < 26 THEN 65 + v
    ELSE IF v < 52 THEN 97 + (v - 26)
    ELSE IF v < 62 THEN 48 + (v - 52)
    ELSE IF v = 62 THEN 45
    ELSE 95

\* inverse of B64Char; -1 for a character outside the alphabet
B64Val(c) ==
    IF c >= 65 /\ c <= 90 THEN c - 65
    ELSE IF c >= 97 /\ c <= 122 THEN c - 97 + 26
    ELSE IF c >= 48 /\ c <= 57 THEN c - 48 + 52
    ELSE IF c = 45 THEN 62
    ELSE IF c = 95 THEN 63
    ELSE -1

\* '=', base64.StdPadding
B64Pad == 61

\* '"'
Quote == 34

ByteAt(b, i) == IF i <= Len(b) THEN b[i] ELSE 0

\* base64.URLEncoding.EncodeToString: every 3 bytes give 4 characters, a
\* last group of 1 or 2 bytes is padded with '='
EncodeToString(b) ==
    [k \in 1..(4 * ((Len(b) + 2) \div 3)) |->
        LET g  == 3 * ((k - 1) \div 4)
            j  == (k - 1) % 4
            b1 == ByteAt(b, g + 1)
            b2 == ByteAt(b, g + 2)
            b3 == ByteAt(b, g + 3)
        IN  IF j = 0 THEN B64Char(b1 \div 4)
            ELSE IF j = 1 THEN B64Char((b1 % 4) * 16 + b2 \div 16)
            ELSE IF j = 2 THEN
                 IF g + 2 > Len(b) THEN B64Pad
                 ELSE B64Char((b2 % 16) * 4 + b3 \div 64)
            ELSE IF g + 3 > Len(b) THEN B64Pad
                 ELSE B64Char(b3 % 64)]

\* number of '=' that end t (at most two count as padding)
PadCount(t) ==
    IF Len(t) >= 1 /\ t[Len(t)] = B64Pad
    THEN IF Len(t) >= 2 /\ t[Len(t) - 1] = B64Pad THEN 2 ELSE 1
    ELSE 0

\* the characters the decoder skips wherever they stand: "\n" and "\r"
NotNewline(c) == c \notin {10, 13}

StripNewlines(t) == SelectSeq(t, NotNewline)

\* the decoding of a text without line breaks
DecodeQuanta(t) ==
    LET n    == Len(t)
        pads == PadCount(t)
        good == /\ n % 4 = 0
                /\ \A k \in 1..(n - pads) : B64Val(t[k]) >= 0
        outLen == 3 * (n \div 4) - pads
    IN  IF ~good THEN [ok |-> FALSE, bytes |-> <<>>]
        ELSE [ok |-> TRUE,
              bytes |->
                [m \in 1..outLen |->
                    LET g  == 4 * ((m - 1) \div 3)
                        r  == (m - 1) % 3
                        v1 == B64Val(t[g + 1])
                        v2 == B64Val(t[g + 2])
                        v3 == IF t[g + 3] = B64Pad THEN 0 ELSE B64Val(t[g + 3])
                        v4 == IF t[g + 4] = B64Pad THEN 0 ELSE B64Val(t[g + 4])
                    IN  IF r = 0 THEN v1 * 4 + v2 \div 16
                        ELSE IF r = 1 THEN (v2 % 16) * 16 + v3 \div 4
                        ELSE (v3 % 4) * 64 + v4]]

\* base64.URLEncoding.Decode: [ok, bytes]; not ok is a CorruptInputError.
\* Line breaks in the text are ignored.
DecodeString(t) ==
    CHOOSE dec \in {DecodeQuanta(u) : u \in {StripNewlines(t)}} : TRUE

\* json.Marshal of a string over the base64 alphabet: the text in quotes
JsonQuote(t) == <<Quote>> \o t \o <<Quote>>

(* ------------------------------------------------------- the key registry *)

\* encryptionKeys[name] of a Go map: the zero value (nil) when absent
Lookup(keys, name) == IF name \in DOMAIN keys THEN keys[name] ELSE <<>>

\* what every call returns; fields a call does not set keep these values
NoRet ==
    [val |-> <<>>, typ |-> "bytes", err |-> "nil", panic |-> FALSE, calls |-> {}]

AddKey_Overwrite(keys, name, key) ==
    [keys |-> [n \in DOMAIN keys \cup {name} |-> IF n = name THEN key ELSE keys[n]],
     err  |-> IF name \in DOMAIN keys THEN "ErrKeyAlreadyExists" ELSE "nil"]

\* func AddKey(name string, key []byte) error
AddKey(keys, name, key) ==
    IF name \in DOMAIN keys
    THEN [keys |-> keys, err |-> "ErrKeyAlreadyExists"]
    ELSE [keys |-> [n \in DOMAIN keys \cup {name} |-> IF n = name THEN key ELSE keys[n]],
          err  |-> "nil"]

(* ------------------------------------------------------------- the codec *)

\* the tail of Encrypt once the cipher is built: rnd is what
\* io.ReadFull(rand.Reader, nonce) gave, [ok, nonce]
EncryptWithNonce(key, p, rnd) ==
    IF ~rnd.ok
    THEN [NoRet EXCEPT !.err = "RandError",
                       !.calls = {"aes.NewCipher", "rand.Reader"}]
    ELSE [NoRet EXCEPT
            !.val = <<encryptionVersion>> \o rnd.nonce \o Seal(key, rnd.nonce, p),
            !.calls = {"aes.NewCipher", "rand.Reader", "cipher.NewGCM", "Seal"}]

Encrypt_SkipEmpty(keys, p, rnd) ==
    IF p = <<>> THEN NoRet
    ELSE IF ~NewCipherOK(Lookup(keys, "encrypt"))
    THEN [NoRet EXCEPT !.err = "KeySizeError", !.calls = {"aes.NewCipher"}]
    ELSE EncryptWithNonce(Lookup(keys, "encrypt"), p, rnd)

Encrypt_NonceNotStored(keys, p, rnd) ==
    IF ~NewCipherOK(Lookup(keys, "encrypt"))
    THEN [NoRet EXCEPT !.err = "KeySizeError", !.calls = {"aes.NewCipher"}]
    ELSE IF ~rnd.ok
    THEN [NoRet EXCEPT !.err = "RandError",
                       !.calls = {"aes.NewCipher", "rand.Reader"}]
    ELSE [NoRet EXCEPT
            !.val = <<encryptionVersion>> \o [i \in 1..blockSize |-> 0]
                        \o Seal(Lookup(keys, "encrypt"), rnd.nonce, p),
            !.calls = {"aes.NewCipher", "rand.Reader", "cipher.NewGCM", "Seal"}]

\* func (e EncryptedString) Encrypt() ([]byte, error); rnd is the outcome of
\* io.ReadFull(rand.Reader, nonce): the 12 bytes read, or a failed read
Encrypt(keys, p, rnd) ==
    IF ~NewCipherOK(Lookup(keys, "encrypt"))
    THEN [NoRet EXCEPT !.err = "KeySizeError", !.calls = {"aes.NewCipher"}]
    ELSE EncryptWithNonce(Lookup(keys, "encrypt"), p, rnd)

\* the tail of Decrypt: what it returns for the result of aesgcm.Open
AfterOpen(opened) ==
    IF ~opened.ok
    THEN [NoRet EXCEPT !.err = "ErrOpen",
                       !.calls = {"aes.NewCipher", "cipher.NewGCM", "Open"}]
    ELSE [NoRet EXCEPT !.val = opened.plaintext,
                       !.calls = {"aes.NewCipher", "cipher.NewGCM", "Open"}]

Decrypt_LengthFirst(keys, ciphertext) ==
    LET key == Lookup(keys, "encrypt")
    IN  IF ~NewCipherOK(key)
        THEN [NoRet EXCEPT !.err = "KeySizeError", !.calls = {"aes.NewCipher"}]
        ELSE IF Len(ciphertext) < blockSize + 1
        THEN [NoRet EXCEPT !.err = "ErrShortCipher", !.calls = {"aes.NewCipher"}]
        ELSE IF ciphertext[1] # encryptionVersion
        THEN [NoRet EXCEPT !.err = "ErrVersionMismatch",
                           !.calls = {"aes.NewCipher", "fmt.Println"}]
        ELSE AfterOpen(Open(key, SubSeq(ciphertext, 2, blockSize + 1),
                            Drop(ciphertext, blockSize + 1)))

Decrypt_LengthOffByOne(keys, ciphertext) ==
    LET key == Lookup(keys, "encrypt")
    IN  IF ~NewCipherOK(key)
        THEN [NoRet EXCEPT !.err = "KeySizeError", !.calls = {"aes.NewCipher"}]
        ELSE IF Len(ciphertext) = 0
        THEN [NoRet EXCEPT !.panic = TRUE, !.calls = {"aes.NewCipher"}]
        ELSE IF ciphertext[1] # encryptionVersion
        THEN [NoRet EXCEPT !.err = "ErrVersionMismatch",
                           !.calls = {"aes.NewCipher", "fmt.Println"}]
        ELSE IF Len(ciphertext) < blockSize
        THEN [NoRet EXCEPT !.err = "ErrShortCipher", !.calls = {"aes.NewCipher"}]
        ELSE IF Len(ciphertext) < blockSize + 1
        THEN [NoRet EXCEPT !.panic = TRUE, !.calls = {"aes.NewCipher"}]
        ELSE AfterOpen(Open(key, SubSeq(ciphertext, 2, blockSize + 1),
                            Drop(ciphertext, blockSize + 1)))

Decrypt_IgnoreOpenError(keys, ciphertext) ==
    LET key == Lookup(keys, "encrypt")
    IN  IF ~NewCipherOK(key)
        THEN [NoRet EXCEPT !.err = "KeySizeError", !.calls = {"aes.NewCipher"}]
        ELSE IF Len(ciphertext) = 0
        THEN [NoRet EXCEPT !.panic = TRUE, !.calls = {"aes.NewCipher"}]
        ELSE IF ciphertext[1] # encryptionVersion
        THEN [NoRet EXCEPT !.err = "ErrVersionMismatch",
                           !.calls = {"aes.NewCipher", "fmt.Println"}]
        ELSE IF Len(ciphertext) < blockSize + 1
        THEN [NoRet EXCEPT !.err = "ErrShortCipher", !.calls = {"aes.NewCipher"}]
        ELSE LET nonce  == SubSeq(ciphertext, 2, blockSize + 1)
                 sealed == Drop(ciphertext, blockSize + 1)
                 called == {"aes.NewCipher", "cipher.NewGCM", "Open"}
             IN  [NoRet EXCEPT
                    !.val = CtrXor(AesGcm(key).w, nonce,
                                   Take(sealed, IF Len(sealed) < gcmTagSize THEN 0
                                                ELSE Len(sealed) - gcmTagSize))
                             \o <<>>,
                    !.calls = called]

\* func (e EncryptedString) Decrypt(ciphertext []byte) (string, error).
\* ciphertext[0] of a zero-length slice is an index-out-of-range panic.
Decrypt(keys, ciphertext) ==
    LET key == Lookup(keys, "encrypt")
    IN  IF ~NewCipherOK(key)
        THEN [NoRet EXCEPT !.err = "KeySizeError", !.calls = {"aes.NewCipher"}]
        ELSE IF Len(ciphertext) = 0
        THEN [NoRet EXCEPT !.panic = TRUE, !.calls = {"aes.NewCipher"}]
        ELSE IF ciphertext[1] # encryptionVersion
        THEN [NoRet EXCEPT !.err = "ErrVersionMismatch",
                           !.calls = {"aes.NewCipher", "fmt.Println"}]
        ELSE IF Len(ciphertext) < blockSize + 1
        THEN [NoRet EXCEPT !.err = "ErrShortCipher", !.calls = {"aes.NewCipher"}]
        ELSE AfterOpen(Open(key, SubSeq(ciphertext, 2, blockSize + 1),
                            Drop(ciphertext, blockSize + 1)))

(* ------------------------------------------- database/sql/driver adapter *)

Value_AlwaysEncrypt(keys, p, rnd) ==
    CHOOSE out \in {IF r.err # "nil" THEN [r EXCEPT !.val = <<>>] ELSE r :
                      r \in {Encrypt(keys, p, rnd)}} : TRUE

\* func (e EncryptedString) Value() (driver.Value, error)
Value(keys, p, rnd) ==
    IF p = <<>> THEN NoRet
    ELSE CHOOSE out \in {IF r.err # "nil" THEN [r EXCEPT !.val = <<>>] ELSE r :
                           r \in {Encrypt(keys, p, rnd)}} : TRUE

\* func (e *EncryptedString) Scan(src interface{}) error; src is
\* [typ, v], e0 the receiver's value before the call: [e, err, panic, calls]
Scan(keys, e0, src) ==
    IF src.typ # "bytes"
    THEN [e |-> e0, err |-> "ErrSrcNotBytes", panic |-> FALSE, calls |-> {}]
    ELSE IF Len(src.v) = 0
    THEN [e |-> <<>>, err |-> "nil", panic |-> FALSE, calls |-> {}]
    ELSE CHOOSE out \in
           {IF r.panic \/ r.err # "nil"
            THEN [e |-> e0, err |-> r.err, panic |-> r.panic, calls |-> r.calls]
            ELSE [e |-> r.val, err |-> "nil", panic |-> FALSE, calls |-> r.calls] :
              r \in {Decrypt(keys, src.v)}} : TRUE

(* --------------------------------------------------- encoding/json adapter *)

\* func (e EncryptedString) MarshalJSON() ([]byte, error)
MarshalJSON(keys, p, rnd) ==
    CHOOSE out \in
      {IF r.err # "nil" THEN r
       ELSE [r EXCEPT !.val = JsonQuote(EncodeToString(r.val)), !.typ = "text"] :
         r \in {Encrypt(keys, p, rnd)}} : TRUE

\* func (e *EncryptedString) UnmarshalJSON(b64 []byte) error.
\* b64[1 : len(b64)-1] panics when len(b64) < 2; *e is assigned whatever
\* Decrypt returned, also on error.
UnmarshalJSON(keys, e0, b64) ==
    IF Len(b64) < 2
    THEN [e |-> e0, err |-> "nil", panic |-> TRUE, calls |-> {}]
    ELSE CHOOSE out \in
           {IF ~dec.ok
            THEN [e |-> e0, err |-> "CorruptInputError", panic |-> FALSE, calls |-> {}]
            ELSE CHOOSE o \in
                   {IF r.panic
                    THEN [e |-> e0, err |-> "nil", panic |-> TRUE, calls |-> r.calls]
                    ELSE [e |-> r.val, err |-> r.err, panic |-> FALSE,
                          calls |-> r.calls] :
                      r \in {Decrypt(keys, dec.bytes)}} : TRUE :
              dec \in {DecodeString(SubSeq(b64, 2, Len(b64) - 1))}} : TRUE

(* ------------------------------------------------------------ blind index *)

GetHash_EncryptKey(keys, b) ==
    [NoRet EXCEPT !.val = HmacSha512(Lookup(keys, "encrypt"), b),
                  !.calls = {"hmac.New", "mac.Write", "mac.Sum"}]

\* func (b BlindIndexHash) GetHash() ([]byte, error); hmac accepts any key,
\* the nil slice of an unregistered name included, and mac.Write never fails
GetHash(keys, b) ==
    [NoRet EXCEPT !.val = HmacSha512(Lookup(keys, "blindIndex"), b),
                  !.calls = {"hmac.New", "mac.Write", "mac.Sum"}]

\* func (b BlindIndexHash) GetBase64() (string, error)
GetBase64(keys, b) ==
    CHOOSE out \in
      {IF r.err # "nil" THEN [r EXCEPT !.val = <<>>, !.typ = "text"]
       ELSE [r EXCEPT !.val = EncodeToString(r.val), !.typ = "text"] :
         r \in {GetHash(keys, b)}} : TRUE

\* func (b BlindIndexHash) Value() (driver.Value, error)
BlindIndexHashValue(keys, b) ==
    IF b = <<>> THEN [NoRet EXCEPT !.typ = "text"]
    ELSE CHOOSE out \in {IF r.err # "nil" THEN [r EXCEPT !.val = <<>>] ELSE r :
                           r \in {GetBase64(keys, b)}} : TRUE

(* ------------------------------------------------------ calls and inputs *)

HashOps == {"GetHash", "GetBase64", "BlindIndexHash.Value"}

NoOrigin == [by |-> "none", plain |-> <<>>, out |-> <<>>, err |-> "nil"]

Call0 ==
    [op |-> "none", name |-> "", plain |-> <<>>,
     rnd |-> [ok |-> TRUE, nonce |-> <<>>],
     arg |-> <<>>, argtyp |-> "bytes", e0 |-> <<>>, origin |-> NoOrigin,
     val |-> <<>>, typ |-> "bytes", e |-> <<>>,
     err |-> "nil", panic |-> FALSE, calls |-> {}]

Produced(r) == r.op \in {"Encrypt", "Value", "MarshalJSON"} /\ r.err = "nil"

\* what the call before gave, when it was an encrypting call
OriginOf(r) ==
    IF r.op \in {"Encrypt", "Value", "MarshalJSON"}
    THEN [by |-> r.op, plain |-> r.plain, out |-> r.val, err |-> r.err]
    ELSE NoOrigin

\* what the call before gave, when it was a hash call
HashOriginOf(r) ==
    IF r.op \in HashOps
    THEN [by |-> r.op, plain |-> r.plain, out |-> r.val, err |-> r.err]
    ELSE NoOrigin

\* bit masks a storage fault or an attacker applies to one byte
TamperMasks == {1, 128}

\* what a byte changed together with others moves by, mod 256
PairSteps == {1, 255}

\* version bytes other than the supported one
BadVersions == {1, 255}

Truncations(c) ==
    {Take(c, n) : n \in ((0..(blockSize + 1)) \cup {Len(c) - 1}) \ {-1}}

SealedTampers(c) ==
    {[c EXCEPT ![i] = Xor(@, m)] : i \in (blockSize + 2)..Len(c), m \in TamperMasks}

NonceTampers(c) ==
    {[c EXCEPT ![i] = Xor(@, m)] : i \in 2..(blockSize + 1), m \in TamperMasks}

\* two neighbouring bytes of the sealed data changed at once
PairTampers(c) ==
    {[c EXCEPT ![i] = (@ + 1) % 256, ![i + 1] = (@ + d) % 256] :
        i \in (blockSize + 2)..(Len(c) - 1), d \in PairSteps}

\* every byte of the sealed data changed at once: the bytes before the tag
\* only, or the tag as well
WholeTampers(c) ==
    {[i \in 1..Len(c) |->
        IF i > blockSize + 1 /\ i <= last THEN (c[i] + d) % 256 ELSE c[i]] :
        last \in {Len(c) - gcmTagSize, Len(c)}, d \in PairSteps}

Reversioned(cs) ==
    {[c EXCEPT ![1] = v] : c \in {x \in cs : Len(x) > 0}, v \in BadVersions}

FixedCiphers ==
    {<<>>, <<0>>, <<1>>, [i \in 1..(blockSize + 1) |-> 0],
     [i \in 1..(blockSize + 1 + gcmTagSize) |-> 0]}

\* ciphertexts handed to Decrypt: fixed ones and, after an Encrypt call that
\* returned a ciphertext, that ciphertext, its prefixes and its alterations
CipherInputs(r) ==
    FixedCiphers \cup
    (IF r.op = "Encrypt" /\ r.err = "nil"
     THEN {r.val} \cup Truncations(r.val) \cup SealedTampers(r.val)
            \cup NonceTampers(r.val) \cup PairTampers(r.val)
            \cup WholeTampers(r.val)
            \cup Reversioned({r.val, Take(r.val, 1), Take(r.val, blockSize)})
     ELSE {})

\* driver values handed to Scan
ScanInputs(r) ==
    {[typ |-> "bytes", v |-> c] : c \in {<<>>, <<0>>, <<1>>}} \cup
    {[typ |-> "string", v |-> <<72>>], [typ |-> "nil", v |-> <<>>]} \cup
    (IF Produced(r) /\ r.typ = "bytes"
     THEN {[typ |-> "bytes", v |-> c] :
              c \in {r.val, Take(r.val, 5)} \cup
                    {[r.val EXCEPT ![i] = Xor(@, 1)] : i \in {Len(r.val)} \ {0}}}
     ELSE {})

\* JSON texts handed to UnmarshalJSON: "", "A", "!!!!", "AAAA\n", a lone
\* quote, and the text MarshalJSON has just produced, as it is and with a
\* line break inside
JsonInputs(r) ==
    {<<Quote, Quote>>, <<Quote, 65, Quote>>, <<Quote, 33, 33, 33, 33, Quote>>,
     <<Quote, 65, 65, 65, 65, 10, Quote>>, <<Quote>>} \cup
    (IF Produced(r) /\ r.typ = "text"
     THEN {r.val, Take(r.val, 5) \o <<13, 10>> \o Drop(r.val, 5)}
     ELSE {})

\* values the receiver of Scan and UnmarshalJSON holds before the call
Receivers == {<<>>, <<120>>}

(* -------------------------------------------------------------- the system *)

Init ==
    /\ encryptionKeys = <<>>
    /\ ret = Call0

CallAddKey(name, key) ==
    \E r \in {AddKey(encryptionKeys, name, key)} :
        /\ encryptionKeys' = r.keys
        /\ ret' = [Call0 EXCEPT !.op = "AddKey", !.name = name, !.arg = key,
                                !.err = r.err]

CallEncrypt(p, rnd) ==
    \E r \in {Encrypt(encryptionKeys, p, rnd)} :
        /\ ret' = [Call0 EXCEPT !.op = "Encrypt", !.plain = p, !.rnd = rnd,
                                !.val = r.val, !.typ = r.typ, !.err = r.err,
                                !.panic = r.panic, !.calls = r.calls]
        /\ UNCHANGED encryptionKeys

CallDecrypt(c) ==
    \E r \in {Decrypt(encryptionKeys, c)} :
        /\ ret' = [Call0 EXCEPT !.op = "Decrypt", !.arg = c,
                                !.origin = OriginOf(ret),
                                !.val = r.val, !.typ = "text", !.err = r.err,
                                !.panic = r.panic, !.calls = r.calls]
        /\ UNCHANGED encryptionKeys

CallValue(p, rnd) ==
    \E r \in {Value(encryptionKeys, p, rnd)} :
        /\ ret' = [Call0 EXCEPT !.op = "Value", !.plain = p, !.rnd = rnd,
                                !.val = r.val, !.typ = r.typ, !.err = r.err,
                                !.panic = r.panic, !.calls = r.calls]
        /\ UNCHANGED encryptionKeys

CallScan(e0, src) ==
    \E r \in {Scan(encryptionKeys, e0, src)} :
        /\ ret' = [Call0 EXCEPT !.op = "Scan", !.arg = src.v, !.argtyp = src.typ,
                                !.e0 = e0, !.origin = OriginOf(ret),
                                !.e = r.e, !.err = r.err,
                                !.panic = r.panic, !.calls = r.calls]
        /\ UNCHANGED encryptionKeys

CallMarshalJSON(p, rnd) ==
    \E r \in {MarshalJSON(encryptionKeys, p, rnd)} :
        /\ ret' = [Call0 EXCEPT !.op = "MarshalJSON", !.plain = p, !.rnd = rnd,
                                !.val = r.val, !.typ = r.typ, !.err = r.err,
                                !.panic = r.panic, !.calls = r.calls]
        /\ UNCHANGED encryptionKeys

CallUnmarshalJSON(e0, b64) ==
    \E r \in {UnmarshalJSON(encryptionKeys, e0, b64)} :
        /\ ret' = [Call0 EXCEPT !.op = "UnmarshalJSON", !.arg = b64,
                                !.argtyp = "text", !.e0 = e0,
                                !.origin = OriginOf(ret),
                                !.e = r.e, !.err = r.err,
                                !.panic = r.panic, !.calls = r.calls]
        /\ UNCHANGED encryptionKeys

CallGetHash(b) ==
    \E r \in {GetHash(encryptionKeys, b)} :
        /\ ret' = [Call0 EXCEPT !.op = "GetHash", !.plain = b,
                                !.origin = HashOriginOf(ret),
                                !.val = r.val, !.typ = r.typ, !.err = r.err,
                                !.calls = r.calls]
        /\ UNCHANGED encryptionKeys

CallGetBase64(b) ==
    \E r \in {GetBase64(encryptionKeys, b)} :
        /\ ret' = [Call0 EXCEPT !.op = "GetBase64", !.plain = b,
                                !.origin = HashOriginOf(ret),
                                !.val = r.val, !.typ = r.typ, !.err = r.err,
                                !.calls = r.calls]
        /\ UNCHANGED encryptionKeys

CallBlindIndexHashValue(b) ==
    \E r \in {BlindIndexHashValue(encryptionKeys, b)} :
        /\ ret' = [Call0 EXCEPT !.op = "BlindIndexHash.Value", !.plain = b,
                                !.origin = HashOriginOf(ret),
                                !.val = r.val, !.typ = r.typ, !.err = r.err,
                                !.calls = r.calls]
        /\ UNCHANGED encryptionKeys

Next ==
    \/ \E name \in Names, key \in Keys : CallAddKey(name, key)
    \/ \E p \in Plaintexts, rnd \in RandReads : CallEncrypt(p, rnd)
    \/ \E c \in CipherInputs(ret) : CallDecrypt(c)
    \/ \E p \in Plaintexts, rnd \in RandReads : CallValue(p, rnd)
    \/ \E e0 \in Receivers, src \in ScanInputs(ret) : CallScan(e0, src)
    \/ \E p \in Plaintexts, rnd \in RandReads : CallMarshalJSON(p, rnd)
    \/ \E e0 \in Receivers, b64 \in JsonInputs(ret) : CallUnmarshalJSON(e0, b64)
    \/ \E b \in Plaintexts : CallGetHash(b)
    \/ \E b \in Plaintexts : CallGetBase64(b)
    \/ \E b \in Plaintexts : CallBlindIndexHashValue(b)

Spec == Init /\ [][Next]_vars

(* ------------------------------------------------------------ properties *)

\* a key aes.NewCipher accepts is registered under "encrypt"
ValidKey == NewCipherOK(Lookup(encryptionKeys, "encrypt"))

\* the last call was Decrypt, handed exactly what the Encrypt call before it
\* returned
DecryptedOwnOutput ==
    /\ ret.op = "Decrypt"
    /\ ret.origin.by = "Encrypt"
    /\ ret.origin.err = "nil"
    /\ ret.arg = ret.origin.out

\* C1: round trip.  Decrypt of the bytes Encrypt returned for a plaintext P,
\* whatever P (the empty and the long one included) and whatever nonce was
\* drawn, returns P and a nil error.
C1_RoundTrip ==
    DecryptedOwnOutput =>
        /\ ~ret.panic
        /\ ret.err = "nil"
        /\ ret.val = ret.origin.plain

C1_Witness ==
    /\ DecryptedOwnOutput
    /\ ret.origin.plain = LongPlain
    /\ ret.val = LongPlain
    /\ ret.err = "nil"

\* the last call was Scan, handed the bytes the Value call before it returned
ScannedOwnValue ==
    /\ ret.op = "Scan"
    /\ ret.origin.by = "Value"
    /\ ret.argtyp = "bytes"
    /\ ret.arg = ret.origin.out

\* C2, as claimed: with a valid key, Value() of every plaintext returns
\* bytes whose Scan leaves the receiver equal to the plaintext with a nil
\* error; Value() of the empty string returns zero bytes without any codec
\* call, and Scan of zero bytes sets the empty string.
C2_ValueScanAlways ==
    /\ (ret.op = "Value" /\ ret.plain = <<>>) =>
          ret.val = <<>> /\ ret.err = "nil" /\ ret.calls = {}
    /\ (ScannedOwnValue /\ ValidKey) =>
          ~ret.panic /\ ret.err = "nil" /\ ret.e = ret.origin.plain
    /\ (ret.op = "Scan" /\ ret.argtyp = "bytes" /\ ret.arg = <<>>) =>
          ret.e = <<>> /\ ret.err = "nil" /\ ret.calls = {}

\* C2, amended: with a valid key, Value() of a non-empty plaintext returns
\* bytes and a nil error when the random source delivers the nonce, and
\* zero bytes with the read error when it does not; Scan of the bytes of a
\* Value() call that returned a nil error leaves the receiver equal to the
\* plaintext with a nil error; Value() of the empty string returns zero
\* bytes without any codec call, and Scan of zero bytes sets the empty
\* string.
C2_ValueScanRoundTrip ==
    /\ (ret.op = "Value" /\ ValidKey /\ ret.rnd.ok) =>
          ret.err = "nil" /\ ret.typ = "bytes" /\ ~ret.panic
    /\ (ret.op = "Value" /\ ValidKey /\ ~ret.rnd.ok /\ ret.plain # <<>>) =>
          ret.err = "RandError" /\ ret.val = <<>> /\ "Seal" \notin ret.calls
    /\ (ret.op = "Value" /\ ret.plain = <<>>) =>
          ret.val = <<>> /\ ret.err = "nil" /\ ret.calls = {}
    /\ (ScannedOwnValue /\ ret.origin.err = "nil") =>
          ~ret.panic /\ ret.err = "nil" /\ ret.e = ret.origin.plain
    /\ (ret.op = "Scan" /\ ret.argtyp = "bytes" /\ ret.arg = <<>>) =>
          ret.e = <<>> /\ ret.err = "nil" /\ ret.calls = {}

C2_Witness ==
    /\ ScannedOwnValue
    /\ ret.origin.err = "nil"
    /\ ret.origin.plain = LongPlain
    /\ ret.e0 # LongPlain
    /\ ret.e = LongPlain

\* C3, as claimed: Encrypt of the empty plaintext returns a zero-length byte
\* sequence without constructing the cipher or drawing a nonce.
C3_EmptyEncryptIsEmpty ==
    (ret.op = "Encrypt" /\ ret.plain = <<>> /\ ValidKey) =>
        ret.val = <<>> /\ ret.err = "nil" /\ ret.calls = {}

\* C3, amended: with a valid key, Encrypt of the empty plaintext constructs
\* the cipher and reads a nonce from the random source; when the read
\* succeeds it returns 29 bytes: the version byte, the nonce it read and the
\* 16-byte tag of an empty sealed text; when the read fails it returns no
\* bytes and the read error, and seals nothing.
C3_EmptyEncryptIsSealed ==
    /\ (ret.op = "Encrypt" /\ ret.plain = <<>> /\ ValidKey) =>
          {"aes.NewCipher", "rand.Reader"} \subseteq ret.calls
    /\ (ret.op = "Encrypt" /\ ret.plain = <<>> /\ ValidKey /\ ret.rnd.ok) =>
          /\ ret.err = "nil"
          /\ Len(ret.val) = 1 + blockSize + gcmTagSize
          /\ ret.val[1] = encryptionVersion
          /\ SubSeq(ret.val, 2, blockSize + 1) = ret.rnd.nonce
          /\ "Seal" \in ret.calls
    /\ (ret.op = "Encrypt" /\ ret.plain = <<>> /\ ValidKey /\ ~ret.rnd.ok) =>
          /\ ret.err = "RandError"
          /\ ret.val = <<>>
          /\ "Seal" \notin ret.calls

C3_Witness ==
    /\ ret.op = "Encrypt"
    /\ ret.plain = <<>>
    /\ ret.rnd.ok
    /\ ret.err = "nil"
    /\ Len(ret.val) = 1 + blockSize + gcmTagSize

\* C4, as claimed: with a valid key, Decrypt of a zero-length ciphertext
\* returns the empty plaintext and a nil error without crashing, directly
\* and through UnmarshalJSON of the text "" (two quotes).
C4_EmptyDecryptIsEmpty ==
    /\ (ret.op = "Decrypt" /\ ret.arg = <<>> /\ ValidKey) =>
          ~ret.panic /\ ret.err = "nil" /\ ret.val = <<>>
    /\ (ret.op = "UnmarshalJSON" /\ ret.arg = <<Quote, Quote>> /\ ValidKey) =>
          ~ret.panic /\ ret.err = "nil" /\ ret.e = <<>>

\* C5: length check.  With a valid key, Decrypt of 1..12 bytes that start
\* with the supported version returns ErrShortCipher and no plaintext, and
\* does not reach aesgcm.Open.
C5_ShortCipher ==
    (ret.op = "Decrypt" /\ ValidKey /\ Len(ret.arg) \in 1..blockSize
        /\ ret.arg[1] = encryptionVersion) =>
        /\ ret.err = "ErrShortCipher"
        /\ ret.val = <<>>
        /\ ~ret.panic
        /\ "Open" \notin ret.calls

C5_Witness ==
    /\ ret.op = "Decrypt"
    /\ ret.origin.by = "Encrypt"
    /\ ret.origin.err = "nil"
    /\ ret.arg = Take(ret.origin.out, blockSize)
    /\ ret.err = "ErrShortCipher"

\* C6: version check.  With a valid key, Decrypt of a non-empty ciphertext
\* whose first byte is not the supported version returns ErrVersionMismatch
\* and no plaintext whatever its length and other bytes; aesgcm.Open is not
\* reached.
C6_VersionMismatch ==
    (ret.op = "Decrypt" /\ ValidKey /\ Len(ret.arg) >= 1
        /\ ret.arg[1] # encryptionVersion) =>
        /\ ret.err = "ErrVersionMismatch"
        /\ ret.val = <<>>
        /\ ~ret.panic
        /\ "Open" \notin ret.calls

C6_Witness ==
    /\ ret.op = "Decrypt"
    /\ ret.origin.by = "Encrypt"
    /\ ret.origin.err = "nil"
    /\ Len(ret.arg) = Len(ret.origin.out)
    /\ ret.arg[1] # encryptionVersion
    /\ Drop(ret.arg, 1) = Drop(ret.origin.out, 1)
    /\ ret.err = "ErrVersionMismatch"

\* the last call was Decrypt, handed what the Encrypt call before it
\* returned with bytes of the sealed data (after version and nonce) changed
SealedDataTampered ==
    /\ ret.op = "Decrypt"
    /\ ret.origin.by = "Encrypt"
    /\ ret.origin.err = "nil"
    /\ Len(ret.arg) = Len(ret.origin.out)
    /\ Take(ret.arg, blockSize + 1) = Take(ret.origin.out, blockSize + 1)
    /\ ret.arg # ret.origin.out

\* the last call was Decrypt, handed what the Encrypt call before it
\* returned with bytes of the nonce changed
NonceTampered ==
    /\ ret.op = "Decrypt"
    /\ ret.origin.by = "Encrypt"
    /\ ret.origin.err = "nil"
    /\ Len(ret.arg) = Len(ret.origin.out)
    /\ ret.arg[1] = encryptionVersion
    /\ Drop(ret.arg, blockSize + 1) = Drop(ret.origin.out, blockSize + 1)
    /\ ret.arg # ret.origin.out

\* C7: tamper detection.  Decrypt of an Encrypt output with bytes of its
\* sealed data changed, or with bytes of its nonce changed, returns the
\* authentication error and no plaintext; and whenever Decrypt returns a
\* plaintext, its input is what Encrypt returns for that plaintext under the
\* registered key when it reads the input's nonce.
C7_TamperDetected ==
    /\ SealedDataTampered =>
          ret.err = "ErrOpen" /\ ret.val = <<>> /\ ~ret.panic
    /\ NonceTampered =>
          ret.err = "ErrOpen" /\ ret.val = <<>> /\ ~ret.panic
    /\ (ret.op = "Decrypt" /\ ret.err = "nil" /\ ~ret.panic) =>
          /\ Len(ret.arg) >= 1 + blockSize + gcmTagSize
          /\ ret.arg = Encrypt(encryptionKeys, ret.val,
                               [ok |-> TRUE,
                                nonce |-> SubSeq(ret.arg, 2, blockSize + 1)]).val

C7_Witness ==
    /\ SealedDataTampered
    /\ ret.origin.plain # <<>>
    /\ ret.arg[blockSize + 2] # ret.origin.out[blockSize + 2]
    /\ ret.err = "ErrOpen"

\* C8: the registry is append-only with unique names.  No step removes a
\* name or changes the key it maps to; AddKey on a registered name returns
\* ErrKeyAlreadyExists and leaves the registry as it was; AddKey on a new
\* name adds exactly that entry; no other call touches the registry.
C8_RegistryAppendOnly ==
    [][/\ \A n \in DOMAIN encryptionKeys :
             n \in DOMAIN encryptionKeys' /\ encryptionKeys'[n] = encryptionKeys[n]
       /\ (ret'.op = "AddKey" /\ ret'.name \in DOMAIN encryptionKeys) =>
             ret'.err = "ErrKeyAlreadyExists" /\ encryptionKeys' = encryptionKeys
       /\ (ret'.op = "AddKey" /\ ret'.name \notin DOMAIN encryptionKeys) =>
             /\ ret'.err = "nil"
             /\ DOMAIN encryptionKeys' = DOMAIN encryptionKeys \cup {ret'.name}
             /\ encryptionKeys'[ret'.name] = ret'.arg
       /\ ret'.op # "AddKey" => encryptionKeys' = encryptionKeys]_vars

C8_Witness ==
    /\ ret.op = "AddKey"
    /\ ret.err = "ErrKeyAlreadyExists"
    /\ encryptionKeys[ret.name] # ret.arg

\* C9, as claimed: a call made while its named key is not registered
\* ("encrypt" for Encrypt and Decrypt, "blindIndex" for the hash calls)
\* fails with an error and returns nothing.
C9_MissingKeyFails ==
    /\ (ret.op \in {"Encrypt", "Decrypt"} /\ "encrypt" \notin DOMAIN encryptionKeys) =>
          ret.err # "nil" /\ ret.val = <<>>
    /\ (ret.op \in HashOps /\ "blindIndex" \notin DOMAIN encryptionKeys) =>
          ret.err # "nil" /\ ret.val = <<>>

\* length of the URL-safe base64 text of a digest
DigestTextLen == 4 * ((sha512Size + 2) \div 3)

\* C10, as claimed: GetHash, GetBase64 and BlindIndexHash.Value map the empty
\* input to an empty output, and every non-empty input to a 64-byte keyed
\* digest (or its text).
C10_EmptyHashIsEmpty ==
    /\ (ret.op \in HashOps /\ ret.plain = <<>>) => ret.val = <<>>
    /\ (ret.op = "GetHash" /\ ret.plain # <<>>) => Len(ret.val) = sha512Size

\* HMAC-SHA512 of the one-byte message "H" under TestKey, as Go's
\* crypto/hmac with crypto/sha512 gives it
DigestOfH ==
    <<246, 5, 12, 227, 126, 100, 3, 9, 226, 27, 152, 254, 136, 220, 162, 133,
      18, 167, 126, 110, 251, 80, 187, 39, 140, 15, 95, 19, 151, 97, 252, 99,
      219, 13, 34, 50, 69, 224, 98, 146, 147, 234, 254, 241, 201, 130, 210, 139,
      83, 147, 222, 122, 83, 217, 140, 216, 63, 23, 94, 102, 151, 173, 233, 130>>

\* the last two calls were hash calls
TwoHashCalls == ret.op \in HashOps /\ ret.origin.by \in HashOps

\* C10, amended: only BlindIndexHash.Value maps the empty input to the empty
\* text, without hashing, and that differs from the 88-character text it
\* returns for every non-empty input.  GetHash and GetBase64 do not single
\* out the empty input: for every input GetHash returns 64 bytes and
\* GetBase64 an 88-character text.  Of two hash calls in a row (no key is
\* registered between them): the same call on the same input returns the
\* same output; GetHash on two different inputs returns two different
\* digests; GetBase64 returns the URL-safe base64 text of what GetHash
\* returns for that input, and BlindIndexHash.Value of a non-empty input
\* what GetBase64 returns.  The digest is keyed by the "blindIndex" entry:
\* with TestKey registered there, GetHash of "H" is the HMAC-SHA512 digest
\* DigestOfH.
C10_BlindIndex ==
    /\ (ret.op = "BlindIndexHash.Value" /\ ret.plain = <<>>) =>
          ret.val = <<>> /\ ret.err = "nil" /\ ret.calls = {}
    /\ (ret.op = "BlindIndexHash.Value" /\ ret.plain # <<>>) =>
          ret.err = "nil" /\ Len(ret.val) = DigestTextLen
    /\ ret.op = "GetHash" => ret.err = "nil" /\ Len(ret.val) = sha512Size
    /\ ret.op = "GetBase64" => ret.err = "nil" /\ Len(ret.val) = DigestTextLen
    /\ (TwoHashCalls /\ ret.origin.by = ret.op /\ ret.origin.plain = ret.plain) =>
          ret.val = ret.origin.out
    /\ (TwoHashCalls /\ ret.origin.by = "GetHash" /\ ret.op = "GetHash"
          /\ ret.origin.plain # ret.plain) =>
          ret.val # ret.origin.out
    /\ (TwoHashCalls /\ ret.origin.by = "GetHash" /\ ret.op = "GetBase64"
          /\ ret.origin.plain = ret.plain) =>
          ret.val = EncodeToString(ret.origin.out)
    /\ (TwoHashCalls /\ ret.origin.by = "GetBase64"
          /\ ret.op = "BlindIndexHash.Value"
          /\ ret.origin.plain = ret.plain /\ ret.plain # <<>>) =>
          ret.val = ret.origin.out
    /\ (ret.op = "GetHash" /\ ret.plain = <<72>>
          /\ Lookup(encryptionKeys, "blindIndex") = TestKey) =>
          ret.val = DigestOfH

\* GetHash called twice in a row on the empty input with a key registered
\* as "blindIndex": 64 bytes, both times the same
C10_Witness ==
    /\ ret.op = "GetHash"
    /\ ret.origin.by = "GetHash"
    /\ ret.plain = <<>>
    /\ ret.origin.plain = <<>>
    /\ "blindIndex" \in DOMAIN encryptionKeys
    /\ Len(ret.val) = sha512Size
    /\ ret.val = ret.origin.out

====
